---- MODULE Spec2Model ----
(***************************************************************************)
(* Model of the Git-CD VS Code extension's command runner                  *)
(* (runGitCdCommand): precondition checks, spawn of the git-cd subprocess, *)
(* the asynchronous stdout 'data' handler with its prompt detection and    *)
(* answer write-back, the stderr handler and the 'error'/'close' handlers. *)
(*                                                                         *)
(* Text is a sequence of one-character strings; "ESC" stands for \x1b.     *)
(***************************************************************************)
EXTENDS Integers, Sequences, FiniteSets, TLC

(***************************************************************************)
(* Bounds of the model.                                                    *)
(***************************************************************************)
\* number of 'data' events (stdout and stderr together) one subprocess emits
MaxChunks == 2

(***************************************************************************)
(* Characters and JavaScript string primitives.                            *)
(***************************************************************************)
ESC == "ESC"

UpperLetters ==
  <<"A","B","C","D","E","F","G","H","I","J","K","L","M",
    "N","O","P","Q","R","S","T","U","V","W","X","Y","Z">>

LowerLetters ==
  <<"a","b","c","d","e","f","g","h","i","j","k","l","m",
    "n","o","p","q","r","s","t","u","v","w","x","y","z">>

\* String.prototype.toLowerCase on one character
LowerChar(c) ==
  IF \E i \in 1..26 : UpperLetters[i] = c
    THEN LowerLetters[CHOOSE i \in 1..26 : UpperLetters[i] = c]
    ELSE c

\* String.prototype.toLowerCase
toLowerCase(s) == [i \in 1..Len(s) |-> LowerChar(s[i])]

\* the regex class \s, and what trim()/trimEnd() remove
IsSpace(c) == c \in {" ", "\t", "\n", "\r"}

\* the characters the regex '.' does not match
IsLineTerminator(c) == c \in {"\n", "\r"}

\* the regex class [0-9;]
IsAnsiParam(c) == c \in {"0","1","2","3","4","5","6","7","8","9",";"}

\* s.substring(i-1): the text from position i on
From(s, i) == SubSeq(s, i, Len(s))

\* pat occurs in s at position i
MatchesAt(s, pat, i) ==
  /\ i >= 1
  /\ i + Len(pat) - 1 <= Len(s)
  /\ \A k \in 1..Len(pat) : s[i + k - 1] = pat[k]

\* a literal regex without flags: /pat/.test(s)
Contains(s, pat) == \E i \in 1..(Len(s) + 1) : MatchesAt(s, pat, i)

\* a literal regex with the i flag: /pat/i.test(s), pat given in lower case
ContainsCI(s, pat) == Contains(toLowerCase(s), pat)

\* String.prototype.trimEnd
trimEnd(s) ==
  LET keep == {i \in 1..Len(s) : ~IsSpace(s[i])}
  IN  IF keep = {} THEN <<>>
      ELSE SubSeq(s, 1, CHOOSE i \in keep : \A j \in keep : j <= i)

\* String.prototype.trimStart
trimStart(s) ==
  LET keep == {i \in 1..Len(s) : ~IsSpace(s[i])}
  IN  IF keep = {} THEN <<>>
      ELSE From(s, CHOOSE i \in keep : \A j \in keep : i <= j)

\* String.prototype.trim
trim(s) == trimStart(trimEnd(s))

RECURSIVE split(_)
\* s.split('\n'): the lines of s, at least one
split(s) ==
  LET nl == {i \in 1..Len(s) : s[i] = "\n"}
  IN  IF nl = {} THEN <<s>>
      ELSE LET i == CHOOSE i \in nl : \A j \in nl : i <= j
           IN  <<SubSeq(s, 1, i - 1)>> \o split(From(s, i + 1))

RECURSIVE join(_)
\* lines.join('\n')
join(lines) ==
  IF Len(lines) = 0 THEN <<>>
  ELSE IF Len(lines) = 1 THEN lines[1]
  ELSE lines[1] \o <<"\n">> \o join(Tail(lines))

RECURSIVE Concat(_)
\* the concatenation of a sequence of texts
Concat(texts) ==
  IF Len(texts) = 0 THEN <<>> ELSE texts[1] \o Concat(Tail(texts))

\* the end (exclusive) of the maximal run of [0-9;] starting at position i
ParamsEnd(s, i) ==
  LET stop == {j \in i..Len(s) : ~IsAnsiParam(s[j])}
  IN  IF stop = {} THEN Len(s) + 1
      ELSE CHOOSE j \in stop : \A k \in stop : j <= k

RECURSIVE stripAnsiCodes(_)
\* text.replace(/\x1b\[[0-9;]*m/g, '')
stripAnsiCodes(text) ==
  IF Len(text) = 0 THEN <<>>
  ELSE IF /\ text[1] = ESC
          /\ Len(text) >= 2
          /\ text[2] = "["
          /\ ParamsEnd(text, 3) <= Len(text)
          /\ text[ParamsEnd(text, 3)] = "m"
    THEN stripAnsiCodes(From(text, ParamsEnd(text, 3) + 1))
    ELSE <<text[1]>> \o stripAnsiCodes(Tail(text))

\* cleanOutput.split('\n').map(line => line.trimEnd()).join('\n')
cleanedLines(cleanOutput) ==
  LET lines == split(cleanOutput)
  IN  join([i \in 1..Len(lines) |-> trimEnd(lines[i])])


(***************************************************************************)
(* Prompt detection: the pattern lists of the stdout handler.              *)
(***************************************************************************)
\* /\[y\/n\]/i
reYN(s) == ContainsCI(s, <<"[","y","/","n","]">>)

\* /\(yes\/no\)/i
reYesNo(s) == ContainsCI(s, <<"(","y","e","s","/","n","o",")">>)

\* /\?\s*$/ : a '?' followed by white space only, up to the end of the text
reEndsWithQuestion(s) ==
  \E i \in 1..Len(s) :
    /\ s[i] = "?"
    /\ \A j \in (i + 1)..Len(s) : IsSpace(s[j])

\* where /Default:\s*.+$/m can start to match '.+' after a "Default:" at i:
\* behind a run of white space, on a character that ends no line
DefaultValueStarts(s, i) ==
  {k \in (i + 8)..Len(s) :
     /\ \A j \in (i + 8)..(k - 1) : IsSpace(s[j])
     /\ ~IsLineTerminator(s[k])}

\* /Default:\s*.+$/m
reDefault(s) ==
  \E i \in 1..Len(s) :
    /\ MatchesAt(s, <<"D","e","f","a","u","l","t",":">>, i)
    /\ DefaultValueStarts(s, i) # {}

\* /continue\?/i
reContinue(s) == ContainsCI(s, <<"c","o","n","t","i","n","u","e","?">>)

\* /proceed\?/i
reProceed(s) == ContainsCI(s, <<"p","r","o","c","e","e","d","?">>)

\* /do you want/i
reDoYouWant(s) == ContainsCI(s, <<"d","o"," ","y","o","u"," ","w","a","n","t">>)

\* yesNoPatterns.some(pattern => pattern.test(cleanOutput))
hasYesNoQuestion(cleanOutput) == reYN(cleanOutput) \/ reYesNo(cleanOutput)

\* textInputPatterns.some(pattern => pattern.test(cleanOutput))
hasTextInputQuestion(cleanOutput) ==
  \/ reEndsWithQuestion(cleanOutput)
  \/ reDefault(cleanOutput)
  \/ reContinue(cleanOutput)
  \/ reProceed(cleanOutput)
  \/ reDoYouWant(cleanOutput)

(***************************************************************************)
(* Question and default-value extraction of the stdout handler.            *)
(***************************************************************************)
\* line.includes('?')
includes(line, c) == \E i \in 1..Len(line) : line[i] = c

\* the elements of a sequence
Range(seq) == {seq[i] : i \in 1..Len(seq)}

\* the largest / smallest member of a non-empty set of integers
MaxOf(S) == CHOOSE x \in S : \A y \in S : y <= x
MinOf(S) == CHOOSE x \in S : \A y \in S : x <= y

\* the backward scan for the line with the question:
\* for (i = lines.length - 1; i >= 0; i--) { line = lines[i].trim(); ... }
lastQuestionLine(lines) ==
  LET hits == {i \in 1..Len(lines) : includes(trim(lines[i]), "?")}
  IN  IF hits = {} THEN <<>> ELSE trim(lines[MaxOf(hits)])

\* lines.filter(l => l.trim()).pop() || cleanOutput.trim()
lastNonEmptyLine(lines, cleanOutput) ==
  LET full == {i \in 1..Len(lines) : trim(lines[i]) # <<>>}
  IN  IF full = {} THEN trim(cleanOutput) ELSE lines[MaxOf(full)]

\* questionText before the yes/no marker is removed
extractQuestion(cleanPendingOutput, cleanOutput) ==
  LET lines == split(trim(cleanPendingOutput))
      found == lastQuestionLine(lines)
  IN  IF found # <<>> THEN found ELSE lastNonEmptyLine(lines, cleanOutput)

\* the last character of the line that position k is on
LineEnd(s, k) ==
  LET ends == {e \in k..Len(s) : e = Len(s) \/ IsLineTerminator(s[e + 1])}
  IN  MinOf(ends)

\* cleanPendingOutput.match(/Default:\s*(.+?)$/m), then defaultMatch[1].trim():
\* the leftmost "Default:" that matches, the longest run of white space
\* behind it, and the rest of that line
extractDefault(s) ==
  LET at == {i \in 1..Len(s) :
               /\ MatchesAt(s, <<"D","e","f","a","u","l","t",":">>, i)
               /\ DefaultValueStarts(s, i) # {}}
  IN  IF at = {} THEN <<>>
      ELSE LET k == MaxOf(DefaultValueStarts(s, MinOf(at)))
           IN  trim(SubSeq(s, k, LineEnd(s, k)))

\* the regex tail \s*:?\s*$ : white space with at most one colon in it
IsMarkerTail(r) ==
  /\ \A j \in 1..Len(r) : IsSpace(r[j]) \/ r[j] = ":"
  /\ Cardinality({j \in 1..Len(r) : r[j] = ":"}) <= 1

\* questionText.replace(/\s*<marker>\s*:?\s*$/i, ''), marker in lower case
stripTrailingMarker(q, marker) ==
  LET low  == toLowerCase(q)
      hits == {i \in 1..Len(q) :
                 /\ MatchesAt(low, marker, i)
                 /\ IsMarkerTail(From(q, i + Len(marker)))}
  IN  IF hits = {} THEN q
      ELSE LET i == MinOf(hits)
               lead == {p \in 1..i : \A j \in p..(i - 1) : IsSpace(q[j])}
           IN  SubSeq(q, 1, MinOf(lead) - 1)

\* a faulty variant: the question is shown with its marker
cleanYesNoQuestionKeepingMarker(q) == q

\* the question shown by the quick pick: both trailing markers removed
cleanYesNoQuestion(q) ==
  stripTrailingMarker(
    stripTrailingMarker(q, <<"[","y","/","n","]">>),
    <<"(","y","e","s","/","n","o",")">>)

(***************************************************************************)
(* Values of the environment: exit codes, answers of the human, chunks.    *)
(***************************************************************************)
\* the code argument of 'close': a number, or null after a signal
Code(n) == [null |-> FALSE, n |-> n]
NullCode == [null |-> TRUE, n |-> 0]

\* the exit codes a running git-cd ends with by itself
ExitCodes == {Code(0), Code(1)}

\* the errno a failed spawn reports as code of 'close' (ENOENT)
SpawnErrno == Code(-2)

\* the message of the Error a failed spawn emits
SpawnErrorMessage == "spawn ENOENT"

\* what showQuickPick / showInputBox resolve with
Undefined == [defined |-> FALSE, value |-> <<>>]
Value(v) == [defined |-> TRUE, value |-> v]

\* the two items of the quick pick
Yes == <<"Y","e","s">>
No == <<"N","o">>
PickAnswers == {Value(Yes), Value(No), Undefined}

\* what the human enters in the input box
InputAnswers == {Value(<<>>), Value(<<"m">>), Undefined}

\* the argument lists the registered commands pass
ArgLists == {<<"status">>, <<"finish">>}

\* stdout chunks of the subprocess: plain output, a free-text question, a
\* coloured yes/no question, and a yes/no marker cut in two by the pipe
PlainChunk == <<"o","k"," ","\n">>
AskChunk == <<"g","o","?"," ">>
YesNoChunk == <<ESC,"[","1","m","r","m","?"," ","[","Y","/","n","]",":"," ">>
HalfChunkA == <<"[","y","/">>
HalfChunkB == <<"n","]">>
Chunks == {PlainChunk, AskChunk, YesNoChunk, HalfChunkA, HalfChunkB}

\* stderr chunks of the subprocess
ErrChunks == {<<"n","o","?"," ","[","y","/","n","]">>}

(***************************************************************************)
(* State.                                                                  *)
(***************************************************************************)
VARIABLES
  pc,               \* "idle": not yet invoked; "returned": left by an early
                    \* return; "spawned": the promise body has run
  workspaceFolder,  \* vscode.workspace.workspaceFolders?.[0] is defined
  pythonExists,     \* fs.existsSync(pythonPath)
  gitcdExists,      \* fs.existsSync(gitcdPath)
  args,             \* the argument list of the invocation
  notifications,    \* showErrorMessage / showInformationMessage calls, in order
  display,          \* what was appended to outputChannel, in order
  spawnCount,       \* calls of spawn
  proc,             \* the subprocess: "none", "running", "failed" (spawn
                    \* failed), "exited" (stdin destroyed, stdio not yet
                    \* closed), "closed"
  exitCode,         \* the code the subprocess ended with
  killSignalled,    \* child.kill() reached the running subprocess
  stdout,           \* let stdout
  stderr,           \* let stderr
  pendingOutput,    \* let pendingOutput
  awaiting,         \* the stdout handlers suspended in an await
  childOps,         \* child.stdin.write / child.kill calls, in order
  promise,          \* the promise runGitCdCommand returns
  chunkLog,         \* history: the stdout chunks, in arrival order
  errLog,           \* history: the stderr chunks, in arrival order
  arrivals,         \* history: the chunks of both streams, in arrival order
  handled,          \* history: the answers the suspended handlers resumed with
  clearedAt,        \* history: Len(chunkLog) when pendingOutput was last cleared
  procEvents,       \* history: the 'error' and 'close' events delivered
  host,             \* process.env, os.homedir(), os.userInfo().username, the
                    \* sshAuthSock setting and the socket files that exist
  env               \* const env: the environment the subprocess is given

vars ==
  <<pc, workspaceFolder, pythonExists, gitcdExists, args, notifications,
    display, spawnCount, proc, exitCode, killSignalled, stdout, stderr,
    pendingOutput, awaiting, childOps, promise, chunkLog, errLog, arrivals,
    handled, clearedAt, procEvents, host, env>>

envVars == <<workspaceFolder, pythonExists, gitcdExists, args, host>>
sessionVars == <<stdout, stderr, pendingOutput, awaiting, childOps, chunkLog,
                 errLog, arrivals, handled, clearedAt, killSignalled>>

(***************************************************************************)
(* Values the handlers build.                                              *)
(***************************************************************************)
\* a showErrorMessage ("error") or showInformationMessage ("info") call
Notification(kind, what, arg, code) ==
  [kind |-> kind, what |-> what, arg |-> arg, code |-> code]

\* outputChannel.appendLine(line + text)
Line(line, text) == [kind |-> "appendLine", line |-> line, text |-> text]

\* outputChannel.append(text)
Text(text) == [kind |-> "append", line |-> "", text |-> text]

\* child.stdin.write(text)
Write(text) == [op |-> "write", text |-> text]

\* child.kill()
Kill == [op |-> "kill", text |-> <<>>]

\* the states of a promise
Pending == [state |-> "pending", error |-> "", code |-> NullCode]
Resolved == [state |-> "resolved", error |-> "", code |-> NullCode]
\* reject(error) of the 'error' handler
RejectedWith(message) == [state |-> "rejected", error |-> message, code |-> NullCode]
\* reject(new Error(`Process exited with code ${code}`))
RejectedExit(code) == [state |-> "rejected", error |-> "Process exited with code", code |-> code]

\* resolve/reject of a promise: only the first call settles it
Settle(p, outcome) == IF p.state = "pending" THEN outcome ELSE p

(***************************************************************************)
(* The environment of the subprocess.  An environment is a function from   *)
(* the names of the variables that are set to their values.                *)
(***************************************************************************)
\* no environment: the state of env before it is built
NoEnv == [n \in {} |-> ""]

\* a JavaScript truthiness test of process.env[name]: set and not empty
IsSet(processEnv, name) == name \in DOMAIN processEnv /\ processEnv[name] # ""

\* possiblePaths without the glob pattern that the loop skips, in order
possiblePaths ==
  <<"/run/user/uid/gnupg/S.gpg-agent.ssh", "~/.gnupg/S.gpg-agent.ssh",
    "/run/user/uid/keyring/.ssh", "/run/user/uid/keyring/ssh">>

\* findSshAuthSocket: the configured socket, the inherited one, the first of
\* the common locations that exists, or undefined
findSshAuthSocket(configuredSocket, processEnv, existing) ==
  IF configuredSocket # "" /\ configuredSocket \in existing
    THEN configuredSocket
  ELSE IF IsSet(processEnv, "SSH_AUTH_SOCK") /\ processEnv["SSH_AUTH_SOCK"] \in existing
    THEN processEnv["SSH_AUTH_SOCK"]
  ELSE IF \E i \in 1..Len(possiblePaths) : possiblePaths[i] \in existing
    THEN possiblePaths[MinOf({i \in 1..Len(possiblePaths) : possiblePaths[i] \in existing})]
  ELSE ""

\* a faulty variant: process.env is spread behind the fixed variables
buildEnvInheritedLast(processEnv, homedir, username, sshAuthSock) ==
  LET user == IF IsSet(processEnv, "USER") THEN processEnv["USER"] ELSE username
      fixed == [HOME |-> homedir, USER |-> user,
                GITCD_INTERACTIVE |-> "false", GIT_TERMINAL_PROMPT |-> "0"]
      spread == processEnv @@ fixed
      withSock == IF sshAuthSock # ""
                    THEN [SSH_AUTH_SOCK |-> sshAuthSock] @@ spread
                    ELSE spread
  IN  IF IsSet(processEnv, "GPG_TTY")
        THEN [GPG_TTY |-> processEnv["GPG_TTY"]] @@ withSock
        ELSE withSock

\* const env = { ...process.env, HOME, USER, GITCD_INTERACTIVE,
\* GIT_TERMINAL_PROMPT }, then env.SSH_AUTH_SOCK and env.GPG_TTY
buildEnv(processEnv, homedir, username, sshAuthSock) ==
  LET user == IF IsSet(processEnv, "USER") THEN processEnv["USER"] ELSE username
      fixed == [HOME |-> homedir, USER |-> user,
                GITCD_INTERACTIVE |-> "false", GIT_TERMINAL_PROMPT |-> "0"]
      spread == fixed @@ processEnv
      withSock == IF sshAuthSock # ""
                    THEN [SSH_AUTH_SOCK |-> sshAuthSock] @@ spread
                    ELSE spread
  IN  IF IsSet(processEnv, "GPG_TTY")
        THEN [GPG_TTY |-> processEnv["GPG_TTY"]] @@ withSock
        ELSE withSock

\* the environment built for the subprocess on a host
envOn(h) ==
  buildEnv(h.processEnv, h.homedir, h.username,
           findSshAuthSocket(h.configuredSocket, h.processEnv, h.existing))

\* a host: what process.env, os.homedir(), os.userInfo().username, the
\* sshAuthSock setting and fs.existsSync give
Host(processEnv, configuredSocket, existing) ==
  [processEnv |-> processEnv, homedir |-> "/home/alice", username |-> "alice",
   configuredSocket |-> configuredSocket, existing |-> existing]

\* a desktop session with a running agent
TypicalHost ==
  Host([HOME |-> "/home/alice", USER |-> "alice", PATH |-> "/usr/bin",
        SSH_AUTH_SOCK |-> "/tmp/ssh-a/agent.1"],
       "", {"/tmp/ssh-a/agent.1"})

\* child.stdin.writable: the pipe is destroyed when the subprocess exits
stdinWritable == proc = "running"

Init ==
  /\ pc = "idle"
  /\ workspaceFolder \in BOOLEAN
  /\ pythonExists \in BOOLEAN
  /\ gitcdExists \in BOOLEAN
  /\ args \in ArgLists
  /\ notifications = <<>>
  /\ display = <<>>
  /\ spawnCount = 0
  /\ proc = "none"
  /\ exitCode = NullCode
  /\ killSignalled = FALSE
  /\ stdout = <<>>
  /\ stderr = <<>>
  /\ pendingOutput = <<>>
  /\ awaiting = {}
  /\ childOps = <<>>
  /\ promise = Pending
  /\ chunkLog = <<>>
  /\ errLog = <<>>
  /\ arrivals = <<>>
  /\ handled = <<>>
  /\ clearedAt = 0
  /\ procEvents = <<>>
  /\ host = TypicalHost
  /\ env = NoEnv

(***************************************************************************)
(* runGitCdCommand up to the spawn.                                        *)
(***************************************************************************)
NoFailure == "none"

\* a faulty variant: the executable is checked before the interpreter
preconditionFailureGitcdFirst(ws, py, cd) ==
  IF ~ws THEN "No workspace folder open"
  ELSE IF ~cd THEN "Git-CD not found at"
  ELSE IF ~py THEN "Python not found at"
  ELSE NoFailure

\* the early returns: which precondition fails first
preconditionFailure(ws, py, cd) ==
  IF ~ws THEN "No workspace folder open"
  ELSE IF ~py THEN "Python not found at"
  ELSE IF ~cd THEN "Git-CD not found at"
  ELSE NoFailure

\* the lines written to the output channel before the path checks
checkingLines ==
  <<Line("Checking paths...", <<>>), Line("Extension path", <<>>),
    Line("Python", <<>>), Line("Git-CD", <<>>)>>

\* the lines written to the output channel before the spawn
runningLines ==
  <<Line("Running: git-cd", <<>>), Line("Working directory", <<>>),
    Line("SSH_AUTH_SOCK", <<>>), Line("---", <<>>)>>

\* a faulty variant: a run that failed is started once more
runGitCdCommandRetrying ==
  IF pc = "idle"
    THEN /\ LET failure == preconditionFailure(workspaceFolder, pythonExists, gitcdExists)
            IN  IF failure # NoFailure
                  THEN /\ pc' = "returned"
                       /\ notifications' =
                            Append(notifications,
                                   Notification("error", failure, "", NullCode))
                       /\ display' = IF workspaceFolder THEN display \o checkingLines
                                                        ELSE display
                       /\ promise' = Settle(promise, Resolved)
                       /\ UNCHANGED <<spawnCount, env, proc>>
                  ELSE /\ pc' = "spawned"
                       /\ display' = display \o checkingLines \o runningLines
                       /\ env' = envOn(host)
                       /\ spawnCount' = spawnCount + 1
                       /\ proc' = "running"
                       /\ UNCHANGED <<notifications, promise>>
         /\ UNCHANGED <<envVars, sessionVars, exitCode, procEvents>>
    ELSE /\ proc = "closed"
         /\ promise.state = "rejected"
         /\ spawnCount < 2
         /\ spawnCount' = spawnCount + 1
         /\ proc' = "running"
         /\ UNCHANGED <<pc, envVars, sessionVars, exitCode, procEvents,
                        notifications, display, promise, env>>

runGitCdCommand ==
  /\ pc = "idle"
  /\ LET failure == preconditionFailure(workspaceFolder, pythonExists, gitcdExists)
     IN  IF failure # NoFailure
           THEN /\ pc' = "returned"
                /\ notifications' =
                     Append(notifications, Notification("error", failure, "", NullCode))
                /\ display' = IF workspaceFolder THEN display \o checkingLines
                                                 ELSE display
                /\ promise' = Settle(promise, Resolved)
                /\ UNCHANGED <<spawnCount, env, proc>>
           ELSE /\ pc' = "spawned"
                /\ display' = display \o checkingLines \o runningLines
                /\ env' = envOn(host)
                /\ spawnCount' = spawnCount + 1
                /\ proc' = "running"
                /\ UNCHANGED <<notifications, promise>>
  /\ UNCHANGED <<envVars, sessionVars, exitCode, procEvents>>

(***************************************************************************)
(* child.stdout.on('data', async (data) => ...)                            *)
(***************************************************************************)
\* a faulty variant: pendingOutput = output, the buffer holds the last chunk only
pendingReplacedByData(pending, output) == output

\* pendingOutput += output
pendingAfterData(pending, output) == pending \o output

\* a faulty variant: the prompt is taken up whether or not stdin is writable
questionDetectedUnguarded(cleanOutput, writable) ==
  hasYesNoQuestion(cleanOutput) \/ hasTextInputQuestion(cleanOutput)

\* (hasYesNoQuestion || hasTextInputQuestion) && child.stdin.writable
questionDetected(cleanOutput, writable) ==
  (hasYesNoQuestion(cleanOutput) \/ hasTextInputQuestion(cleanOutput)) /\ writable

\* the handler as it stands suspended in showQuickPick or showInputBox
Suspended(id, cleanOutput, pending) ==
  LET cleanPendingOutput == stripAnsiCodes(pending)
      questionText == extractQuestion(cleanPendingOutput, cleanOutput)
  IN  IF hasYesNoQuestion(cleanOutput)
        THEN [id |-> id, kind |-> "yesno",
              question |-> cleanYesNoQuestion(questionText),
              defaultValue |-> extractDefault(cleanPendingOutput)]
        ELSE [id |-> id, kind |-> "text",
              question |-> questionText,
              defaultValue |-> extractDefault(cleanPendingOutput)]

\* a faulty variant: the whole pending buffer is displayed with every chunk
OnStdoutDataShowingBuffer(output) ==
  LET cleanOutput == stripAnsiCodes(output)
      pending == pendingAfterData(pendingOutput, output)
      id == Len(chunkLog) + 1
  IN  /\ stdout' = stdout \o output
      /\ display' = Append(display, Text(cleanedLines(stripAnsiCodes(pending))))
      /\ pendingOutput' = pending
      /\ chunkLog' = Append(chunkLog, output)
      /\ arrivals' = Append(arrivals, output)
      /\ awaiting' = IF questionDetected(cleanOutput, stdinWritable)
                       THEN awaiting \cup {Suspended(id, cleanOutput, pending)}
                       ELSE awaiting

\* the handler from the event to its end or to its await
OnStdoutData(output) ==
  LET cleanOutput == stripAnsiCodes(output)
      pending == pendingAfterData(pendingOutput, output)
      id == Len(chunkLog) + 1
  IN  /\ stdout' = stdout \o output
      /\ display' = Append(display, Text(cleanedLines(cleanOutput)))
      /\ pendingOutput' = pending
      /\ chunkLog' = Append(chunkLog, output)
      /\ arrivals' = Append(arrivals, output)
      /\ awaiting' = IF questionDetected(cleanOutput, stdinWritable)
                       THEN awaiting \cup {Suspended(id, cleanOutput, pending)}
                       ELSE awaiting

\* a chunk of the subprocess's standard output arrives
StdoutData ==
  /\ proc \in {"running", "exited"}
  /\ Len(chunkLog) + Len(errLog) < MaxChunks
  /\ \E output \in Chunks : OnStdoutData(output)
  /\ UNCHANGED <<pc, envVars, notifications, spawnCount, env, proc, exitCode,
                 killSignalled, stderr, childOps, promise, errLog, handled,
                 clearedAt, procEvents>>

\* a faulty variant: the picked label is written as it is shown
yesNoResponseNotLowered(answer) ==
  IF answer.defined /\ answer.value # <<>>
    THEN <<Write(answer.value \o <<"\n">>)>>
    ELSE <<Write(<<"n","o","\n">>), Kill>>

\* a faulty variant: a dismissed quick pick answers 'no' and leaves the
\* subprocess running
yesNoResponseNoKill(answer) ==
  IF answer.defined /\ answer.value # <<>>
    THEN <<Write(toLowerCase(answer.value) \o <<"\n">>)>>
    ELSE <<Write(<<"n","o","\n">>)>>

\* if (answer) { write(answer.toLowerCase() + '\n') } else { write('no\n'); kill() }
yesNoResponse(answer) ==
  IF answer.defined /\ answer.value # <<>>
    THEN <<Write(toLowerCase(answer.value) \o <<"\n">>)>>
    ELSE <<Write(<<"n","o","\n">>), Kill>>

\* a faulty variant: if (answer), an empty submission counts as a dismissal
textInputResponseTruthy(answer) ==
  IF answer.defined /\ answer.value # <<>>
    THEN <<Write(answer.value \o <<"\n">>)>>
    ELSE <<Kill>>

\* if (answer !== undefined) { write(answer + '\n') } else { kill() }
textInputResponse(answer) ==
  IF answer.defined
    THEN <<Write(answer.value \o <<"\n">>)>>
    ELSE <<Kill>>

\* outputChannel.appendLine(`[User selected: ${answer}]`)
yesNoEcho(answer) ==
  IF answer.defined /\ answer.value # <<>>
    THEN <<Line("[User selected: ]", answer.value)>>
    ELSE <<>>

\* outputChannel.appendLine(`[User entered: ${answer || '(empty - using default)'}]`)
textInputEcho(answer) ==
  IF ~answer.defined THEN <<>>
  ELSE IF answer.value # <<>> THEN <<Line("[User entered: ]", answer.value)>>
  ELSE <<Line("[User entered: (empty - using default)]", <<>>)>>

\* pendingOutput = '' after the question was handled
pendingAfterQuestion(pending) == <<>>

\* the rest of a suspended handler, from the resolved await to its end
Resume(h, answer, ops, echo) ==
  /\ awaiting' = awaiting \ {h}
  /\ childOps' = childOps \o ops
  /\ killSignalled' = (killSignalled \/ (proc = "running" /\ Kill \in Range(ops)))
  /\ display' = display \o echo
  /\ pendingOutput' = pendingAfterQuestion(pendingOutput)
  /\ handled' = Append(handled, [id |-> h.id, kind |-> h.kind, answer |-> answer])
  /\ clearedAt' = Len(chunkLog)
  /\ UNCHANGED <<pc, envVars, notifications, spawnCount, env, proc, exitCode,
                 stdout, stderr, promise, chunkLog, errLog, arrivals,
                 procEvents>>

\* the human picks "Yes" or "No" or dismisses the quick pick
QuickPickAnswered ==
  \E h \in awaiting : \E answer \in PickAnswers :
    /\ h.kind = "yesno"
    /\ Resume(h, answer, yesNoResponse(answer), yesNoEcho(answer))

\* the human submits or dismisses the input box
InputBoxAnswered ==
  \E h \in awaiting : \E answer \in InputAnswers :
    /\ h.kind = "text"
    /\ Resume(h, answer, textInputResponse(answer), textInputEcho(answer))

(***************************************************************************)
(* child.stderr.on('data', ...)                                            *)
(***************************************************************************)
OnStderrData(output) ==
  /\ stderr' = stderr \o output
  /\ display' = Append(display, Text(cleanedLines(stripAnsiCodes(output))))
  /\ errLog' = Append(errLog, output)
  /\ arrivals' = Append(arrivals, output)

\* a faulty variant: the stderr handler appends to the pending buffer too
StderrDataBuffering ==
  /\ proc \in {"running", "exited"}
  /\ Len(chunkLog) + Len(errLog) < MaxChunks
  /\ \E output \in ErrChunks :
       /\ OnStderrData(output)
       /\ pendingOutput' = pendingOutput \o output
  /\ UNCHANGED <<pc, envVars, notifications, spawnCount, env, proc, exitCode,
                 killSignalled, stdout, awaiting, childOps,
                 promise, chunkLog, handled, clearedAt, procEvents>>

\* a chunk of the subprocess's standard error arrives
StderrData ==
  /\ proc \in {"running", "exited"}
  /\ Len(chunkLog) + Len(errLog) < MaxChunks
  /\ \E output \in ErrChunks : OnStderrData(output)
  /\ UNCHANGED <<pc, envVars, notifications, spawnCount, env, proc, exitCode,
                 killSignalled, stdout, pendingOutput, awaiting, childOps,
                 promise, chunkLog, handled, clearedAt, procEvents>>

(***************************************************************************)
(* child.on('error', ...) and child.on('close', ...)                       *)
(***************************************************************************)
OnError(message) ==
  /\ display' = Append(display, Line("Error: ", <<>>))
  /\ notifications' =
       Append(notifications, Notification("error", "Git-CD error", message, NullCode))
  /\ promise' = Settle(promise, RejectedWith(message))
  /\ procEvents' = Append(procEvents, [event |-> "error", code |-> NullCode])

\* a faulty variant: !code, a null code (death by signal) counts as success
closedWithFalsyCode(code) == code.null \/ code.n = 0

\* code === 0
closedWithSuccess(code) == ~code.null /\ code.n = 0

\* a faulty variant: a failed run is reported and the promise left pending
OnCloseNotRejecting(code) ==
  /\ procEvents' = Append(procEvents, [event |-> "close", code |-> code])
  /\ IF closedWithSuccess(code)
       THEN /\ display' = Append(display, Line("", <<>>))
            /\ notifications' =
                 Append(notifications,
                        Notification("info", "completed successfully", args[1], NullCode))
            /\ promise' = Settle(promise, Resolved)
       ELSE /\ display' = display \o <<Line("", <<>>), Line("Process exited with code", <<>>)>>
            /\ notifications' =
                 Append(notifications,
                        Notification("error", "failed with code", args[1], code))
            /\ promise' = promise

OnClose(code) ==
  /\ procEvents' = Append(procEvents, [event |-> "close", code |-> code])
  /\ IF closedWithSuccess(code)
       THEN /\ display' = Append(display, Line("", <<>>))
            /\ notifications' =
                 Append(notifications,
                        Notification("info", "completed successfully", args[1], NullCode))
            /\ promise' = Settle(promise, Resolved)
       ELSE /\ display' = display \o <<Line("", <<>>), Line("Process exited with code", <<>>)>>
            /\ notifications' =
                 Append(notifications,
                        Notification("error", "failed with code", args[1], code))
            /\ promise' = Settle(promise, RejectedExit(code))

(***************************************************************************)
(* The subprocess.                                                         *)
(***************************************************************************)
\* the spawn fails: the subprocess never runs, 'error' is emitted
ChildSpawnError ==
  /\ proc = "running"
  /\ chunkLog = <<>> /\ errLog = <<>> /\ childOps = <<>>
  /\ proc' = "failed"
  /\ exitCode' = SpawnErrno
  /\ OnError(SpawnErrorMessage)
  /\ UNCHANGED <<pc, envVars, sessionVars, spawnCount, env>>

\* the subprocess exits: by itself with a code, or on the signal of kill()
ChildExit ==
  /\ proc = "running"
  /\ \E code \in ExitCodes \cup (IF killSignalled THEN {NullCode} ELSE {}) :
       exitCode' = code
  /\ proc' = "exited"
  /\ UNCHANGED <<pc, envVars, sessionVars, notifications, display, spawnCount, env,
                 promise, procEvents>>

\* the stdio streams of the ended subprocess have closed: 'close' is emitted
ChildClose ==
  /\ proc \in {"exited", "failed"}
  /\ proc' = "closed"
  /\ OnClose(exitCode)
  /\ UNCHANGED <<pc, envVars, sessionVars, spawnCount, env, exitCode>>

Next ==
  \/ runGitCdCommand
  \/ StdoutData
  \/ StderrData
  \/ QuickPickAnswered
  \/ InputBoxAnswered
  \/ ChildSpawnError
  \/ ChildExit
  \/ ChildClose

Spec == Init /\ [][Next]_vars

\* the human answers or dismisses every prompt, and a spawned subprocess ends
\* and its 'close' (behind 'error', if the spawn failed) is delivered
Fairness ==
  /\ WF_vars(QuickPickAnswered)
  /\ WF_vars(InputBoxAnswered)
  /\ WF_vars(ChildExit \/ ChildSpawnError)
  /\ WF_vars(ChildClose)

SpecLive == Init /\ [][Next]_vars /\ Fairness

(***************************************************************************)
(* Two invocations running concurrently.  Every invocation runs the promise *)
(* body once, so child, stdout and pendingOutput exist once per invocation *)
(* and the handlers of an invocation use those of their own closure;       *)
(* outputChannel is the one module-level channel.  In this specification   *)
(* the variables of a session hold one value per invocation.               *)
(***************************************************************************)
Sessions == {1, 2}

\* the stdout chunks of the two subprocesses
ChunksTwo == {PlainChunk, AskChunk, YesNoChunk}

\* a faulty variant: child and pendingOutput are declared at module level,
\* like outputChannel, and every invocation uses the same ones
sharedClosure(s) == 1

\* the closure whose child and pendingOutput the handlers of invocation s use:
\* const child = spawn(...), let pendingOutput = '' inside the promise body
closureOf(s) == s

\* the stdout chunks that all subprocesses have emitted so far
ChunksEmitted == Len(chunkLog[1]) + Len(chunkLog[2])

InitTwo ==
  /\ pc = [s \in Sessions |-> "idle"]
  /\ workspaceFolder = TRUE
  /\ pythonExists = TRUE
  /\ gitcdExists = TRUE
  /\ args = <<<<"status">>, <<"finish">>>>
  /\ notifications = <<>>
  /\ display = <<>>
  /\ spawnCount = 0
  /\ proc = [s \in Sessions |-> "none"]
  /\ exitCode = [s \in Sessions |-> NullCode]
  /\ killSignalled = [s \in Sessions |-> FALSE]
  /\ stdout = [s \in Sessions |-> <<>>]
  /\ stderr = <<>>
  /\ pendingOutput = [s \in Sessions |-> <<>>]
  /\ awaiting = [s \in Sessions |-> {}]
  /\ childOps = [s \in Sessions |-> <<>>]
  /\ promise = [s \in Sessions |-> Pending]
  /\ chunkLog = [s \in Sessions |-> <<>>]
  /\ errLog = <<>>
  /\ arrivals = <<>>
  /\ handled = [s \in Sessions |-> <<>>]
  /\ clearedAt = [s \in Sessions |-> 0]
  /\ procEvents = <<>>
  /\ host = TypicalHost
  /\ env = [s \in Sessions |-> NoEnv]

\* invocation s passes the path checks and spawns its subprocess; the
\* invocations are numbered in the order in which they are made
runGitCdCommandTwo(s) ==
  /\ pc[s] = "idle"
  /\ \A t \in Sessions : t < s => pc[t] = "spawned"
  /\ preconditionFailure(workspaceFolder, pythonExists, gitcdExists) = NoFailure
  /\ pc' = [pc EXCEPT ![s] = "spawned"]
  /\ display' = display \o checkingLines \o runningLines
  /\ env' = [env EXCEPT ![s] = envOn(host)]
  /\ spawnCount' = spawnCount + 1
  /\ proc' = [proc EXCEPT ![s] = "running"]
  /\ UNCHANGED <<envVars, sessionVars, exitCode, procEvents, notifications,
                 promise>>

\* the subprocess of invocation s emits a stdout chunk
StdoutDataTwo(s) ==
  /\ proc[s] \in {"running", "exited"}
  /\ ChunksEmitted < MaxChunks
  /\ \E output \in ChunksTwo :
       LET c == closureOf(s)
           cleanOutput == stripAnsiCodes(output)
           pending == pendingAfterData(pendingOutput[c], output)
           id == Len(chunkLog[s]) + 1
       IN  /\ stdout' = [stdout EXCEPT ![c] = @ \o output]
           /\ display' = Append(display, Text(cleanedLines(cleanOutput)))
           /\ pendingOutput' = [pendingOutput EXCEPT ![c] = pending]
           /\ chunkLog' = [chunkLog EXCEPT ![s] = Append(@, output)]
           /\ awaiting' =
                IF questionDetected(cleanOutput, proc[c] = "running")
                  THEN [awaiting EXCEPT ![s] = @ \cup {Suspended(id, cleanOutput, pending)}]
                  ELSE awaiting
  /\ UNCHANGED <<pc, envVars, notifications, spawnCount, env, proc, exitCode,
                 killSignalled, stderr, childOps, promise, errLog, arrivals,
                 handled, clearedAt, procEvents>>

\* the rest of a suspended handler of invocation s
ResumeTwo(s, h, answer, ops, echo) ==
  LET c == closureOf(s)
  IN  /\ awaiting' = [awaiting EXCEPT ![s] = @ \ {h}]
      /\ childOps' = [childOps EXCEPT ![c] = @ \o ops]
      /\ killSignalled' =
           [killSignalled EXCEPT ![c] = @ \/ (proc[c] = "running" /\ Kill \in Range(ops))]
      /\ display' = display \o echo
      /\ pendingOutput' = [pendingOutput EXCEPT ![c] = pendingAfterQuestion(@)]
      /\ handled' =
           [handled EXCEPT ![s] = Append(@, [id |-> h.id, kind |-> h.kind, answer |-> answer])]
      /\ clearedAt' = [clearedAt EXCEPT ![c] = Len(chunkLog[c])]
      /\ UNCHANGED <<pc, envVars, notifications, spawnCount, env, proc, exitCode,
                     stdout, stderr, promise, chunkLog, errLog, arrivals,
                     procEvents>>

\* the human answers or dismisses a quick pick of invocation s
QuickPickAnsweredTwo(s) ==
  \E h \in awaiting[s] : \E answer \in PickAnswers :
    /\ h.kind = "yesno"
    /\ ResumeTwo(s, h, answer, yesNoResponse(answer), yesNoEcho(answer))

\* the human submits or dismisses an input box of invocation s
InputBoxAnsweredTwo(s) ==
  \E h \in awaiting[s] : \E answer \in InputAnswers :
    /\ h.kind = "text"
    /\ ResumeTwo(s, h, answer, textInputResponse(answer), textInputEcho(answer))

\* the subprocess of invocation s exits
ChildExitTwo(s) ==
  /\ proc[s] = "running"
  /\ \E code \in IF killSignalled[s] THEN {NullCode} ELSE {Code(0)} :
       exitCode' = [exitCode EXCEPT ![s] = code]
  /\ proc' = [proc EXCEPT ![s] = "exited"]
  /\ UNCHANGED <<pc, envVars, sessionVars, notifications, display, spawnCount, env,
                 promise, procEvents>>

\* 'close' of the subprocess of invocation s
ChildCloseTwo(s) ==
  /\ proc[s] = "exited"
  /\ proc' = [proc EXCEPT ![s] = "closed"]
  /\ procEvents' = Append(procEvents, [event |-> "close", code |-> exitCode[s]])
  /\ IF closedWithSuccess(exitCode[s])
       THEN /\ display' = Append(display, Line("", <<>>))
            /\ notifications' =
                 Append(notifications,
                        Notification("info", "completed successfully", args[s][1], NullCode))
            /\ promise' = [promise EXCEPT ![s] = Settle(@, Resolved)]
       ELSE /\ display' = display \o <<Line("", <<>>), Line("Process exited with code", <<>>)>>
            /\ notifications' =
                 Append(notifications,
                        Notification("error", "failed with code", args[s][1], exitCode[s]))
            /\ promise' = [promise EXCEPT ![s] = Settle(@, RejectedExit(exitCode[s]))]
  /\ UNCHANGED <<pc, envVars, sessionVars, spawnCount, env, exitCode>>

NextTwo ==
  \/ \E s \in Sessions : runGitCdCommandTwo(s)
  \/ \E s \in Sessions : StdoutDataTwo(s)
  \/ \E s \in Sessions : QuickPickAnsweredTwo(s)
  \/ \E s \in Sessions : InputBoxAnsweredTwo(s)
  \/ \E s \in Sessions : ChildExitTwo(s)
  \/ \E s \in Sessions : ChildCloseTwo(s)

SpecTwo == InitTwo /\ [][NextTwo]_vars

(***************************************************************************)
(* One session whose subprocess prints texts put together from the words   *)
(* the patterns of the stdout handler look for.                            *)
(***************************************************************************)
MaxTokens == 3

\* the words the texts are put together from
Tokens ==
  {<<"[", "y", "/", "n", "]">>,
   <<"[", "Y", "/", "n", "]">>,
   <<"(", "y", "e", "s", "/", "n", "o", ")">>,
   <<"?">>,
   <<" ">>,
   <<"\n">>,
   <<"x">>,
   <<":">>,
   <<"D", "e", "f", "a", "u", "l", "t", ":">>,
   <<"c", "o", "n", "t", "i", "n", "u", "e", "?">>,
   <<"P", "r", "o", "c", "e", "e", "d", "?">>,
   <<"d", "o", " ", "y", "o", "u", " ", "w", "a", "n", "t">>,
   <<ESC, "[", "1", "m">>}

\* the texts of at most MaxTokens words
TokenTexts ==
  {Concat(t) : t \in UNION {[1..n -> Tokens] : n \in 1..MaxTokens}}

\* a yes/no prompt of git-cd
ContinuePrompt ==
  <<"C", "o", "n", "t", "i", "n", "u", "e", "?", " ", "[", "y", "/", "n",
  "]", ":", " ">>
\* a prompt of git-cd that offers a default value
BranchPrompt ==
  <<"E", "n", "t", "e", "r", " ", "b", "r", "a", "n", "c", "h", " ", "n",
  "a", "m", "e", "?", "\n", "D", "e", "f", "a", "u", "l", "t", ":", " ",
  "m", "a", "i", "n">>
\* output without a prompt that precedes a prompt in the pending buffer
Prefixes == {<<"a", "?", "b", "\n">>}

ClassifyTexts == TokenTexts \cup {ContinuePrompt, BranchPrompt}

\* a session whose preconditions hold
InitClassify ==
  /\ Init
  /\ preconditionFailure(workspaceFolder, pythonExists, gitcdExists) = NoFailure
  /\ args = <<"status">>

\* the first stdout chunk of the subprocess, or the chunk behind a prefix
ClassifyData ==
  /\ proc = "running"
  /\ \/ chunkLog = <<>>
     \/ chunkLog \in {<<p>> : p \in Prefixes}
  /\ \E output \in (IF chunkLog = <<>> THEN Prefixes ELSE {}) \cup ClassifyTexts :
       OnStdoutData(output)
  /\ UNCHANGED <<pc, envVars, notifications, spawnCount, env, proc, exitCode,
                 killSignalled, stderr, childOps, promise, errLog, handled,
                 clearedAt, procEvents>>

NextClassify ==
  \/ runGitCdCommand
  \/ ClassifyData
  \/ QuickPickAnswered
  \/ InputBoxAnswered

SpecClassify == InitClassify /\ [][NextClassify]_vars

(***************************************************************************)
(* One session whose subprocess prints texts of escape sequences, on       *)
(* either stream.                                                          *)
(***************************************************************************)
MaxAnsiLen == 6

\* ESC, '[', a digit, ';', 'm', white space and the line end
AnsiAlphabet == {ESC, "[", "1", ";", "m", " ", "\n"}

\* the texts of at most MaxAnsiLen characters
AnsiTexts == UNION {[1..n -> AnsiAlphabet] : n \in 1..MaxAnsiLen}

\* the only chunk of the subprocess, on stdout
SanitizeData ==
  /\ proc = "running"
  /\ arrivals = <<>>
  /\ \E output \in AnsiTexts : OnStdoutData(output)
  /\ UNCHANGED <<pc, envVars, notifications, spawnCount, env, proc, exitCode,
                 killSignalled, stderr, childOps, promise, errLog, handled,
                 clearedAt, procEvents>>

\* the only chunk of the subprocess, on stderr
SanitizeErrData ==
  /\ proc = "running"
  /\ arrivals = <<>>
  /\ \E output \in AnsiTexts : OnStderrData(output)
  /\ UNCHANGED <<pc, envVars, notifications, spawnCount, env, proc, exitCode,
                 killSignalled, stdout, pendingOutput, awaiting, childOps,
                 promise, chunkLog, handled, clearedAt, procEvents>>

NextSanitize ==
  \/ runGitCdCommand
  \/ SanitizeData
  \/ SanitizeErrData

SpecSanitize == InitClassify /\ [][NextSanitize]_vars

(***************************************************************************)
(* One session on any of a set of hosts: what the extension host inherits, *)
(* what is configured and which socket files exist.                        *)
(***************************************************************************)
Absent == "(unset)"

\* what the inherited variables may be: unset, empty or set
InheritedChoices ==
  [HOME : {Absent, "/root"},
   USER : {Absent, "", "bob"},
   GITCD_INTERACTIVE : {Absent, "true"},
   GIT_TERMINAL_PROMPT : {Absent, "1"},
   SSH_AUTH_SOCK : {Absent, "/inherited.sock"},
   GPG_TTY : {Absent, "", "/dev/pts/0"},
   PATH : {"/usr/bin"}]

\* process.env: the variables that are set
ProcessEnvs ==
  {[n \in {m \in DOMAIN c : c[m] # Absent} |-> c[n]] : c \in InheritedChoices}

\* the values of the sshAuthSock setting
ConfiguredSockets == {"", "/configured.sock"}

\* the socket files that may exist
SocketFiles ==
  {"/configured.sock", "/inherited.sock", possiblePaths[1], possiblePaths[4]}

Hosts ==
  {Host(e, c, x) : e \in ProcessEnvs, c \in ConfiguredSockets, x \in SUBSET SocketFiles}

InitEnv ==
  /\ pc = "idle"
  /\ workspaceFolder = TRUE
  /\ pythonExists = TRUE
  /\ gitcdExists = TRUE
  /\ args = <<"status">>
  /\ notifications = <<>>
  /\ display = <<>>
  /\ spawnCount = 0
  /\ proc = "none"
  /\ exitCode = NullCode
  /\ killSignalled = FALSE
  /\ stdout = <<>>
  /\ stderr = <<>>
  /\ pendingOutput = <<>>
  /\ awaiting = {}
  /\ childOps = <<>>
  /\ promise = Pending
  /\ chunkLog = <<>>
  /\ errLog = <<>>
  /\ arrivals = <<>>
  /\ handled = <<>>
  /\ clearedAt = 0
  /\ procEvents = <<>>
  /\ host \in Hosts
  /\ env = NoEnv

NextEnv ==
  \/ runGitCdCommand
  \/ ChildSpawnError
  \/ ChildExit
  \/ ChildClose

SpecEnv == InitEnv /\ [][NextEnv]_vars

(***************************************************************************)
(* runGitCdCommandWithInput: the commands that ask for a name first.       *)
(***************************************************************************)
\* the argument lists of the commands registered with an input box
InputArgLists == {<<"start">>, <<"compare">>}

\* a faulty variant: the input is always added, also when it is empty
commandArgsAlways(original, input) == Append(original, input)

\* const commandArgs = input ? [...args, input] : args
commandArgs(original, input) ==
  IF input # <<>> THEN Append(original, input) ELSE original

\* the command was invoked and its input box is open
InitInput ==
  /\ pc = "inputBox"
  /\ workspaceFolder \in BOOLEAN
  /\ pythonExists \in BOOLEAN
  /\ gitcdExists \in BOOLEAN
  /\ args \in InputArgLists
  /\ notifications = <<>>
  /\ display = <<>>
  /\ spawnCount = 0
  /\ proc = "none"
  /\ exitCode = NullCode
  /\ killSignalled = FALSE
  /\ stdout = <<>>
  /\ stderr = <<>>
  /\ pendingOutput = <<>>
  /\ awaiting = {}
  /\ childOps = <<>>
  /\ promise = Pending
  /\ chunkLog = <<>>
  /\ errLog = <<>>
  /\ arrivals = <<>>
  /\ handled = <<>>
  /\ clearedAt = 0
  /\ procEvents = <<>>
  /\ host = TypicalHost
  /\ env = NoEnv

\* the input box returns: on undefined the function returns, otherwise it
\* calls runGitCdCommand(context, commandArgs), which runs up to its spawn
runGitCdCommandWithInput ==
  /\ pc = "inputBox"
  /\ \E input \in InputAnswers :
       /\ handled' = Append(handled, [id |-> 0, kind |-> "input", answer |-> input])
       /\ IF ~input.defined
            THEN /\ pc' = "cancelled"
                 /\ UNCHANGED <<args, notifications, display, promise,
                                spawnCount, env, proc>>
            ELSE /\ args' = commandArgs(args, input.value)
                 /\ LET failure ==
                          preconditionFailure(workspaceFolder, pythonExists, gitcdExists)
                    IN  IF failure # NoFailure
                          THEN /\ pc' = "returned"
                               /\ notifications' =
                                    Append(notifications,
                                           Notification("error", failure, "", NullCode))
                               /\ display' = IF workspaceFolder
                                               THEN display \o checkingLines
                                               ELSE display
                               /\ promise' = Settle(promise, Resolved)
                               /\ UNCHANGED <<spawnCount, env, proc>>
                          ELSE /\ pc' = "spawned"
                               /\ display' = display \o checkingLines \o runningLines
                               /\ env' = envOn(host)
                               /\ spawnCount' = spawnCount + 1
                               /\ proc' = "running"
                               /\ UNCHANGED <<notifications, promise>>
  /\ UNCHANGED <<workspaceFolder, pythonExists, gitcdExists, host, stdout,
                 stderr, pendingOutput, awaiting, childOps, chunkLog, errLog,
                 arrivals, clearedAt, killSignalled, exitCode, procEvents>>

NextInput ==
  \/ runGitCdCommandWithInput
  \/ StdoutData
  \/ QuickPickAnswered
  \/ InputBoxAnswered
  \/ StderrData
  \/ ChildSpawnError
  \/ ChildExit
  \/ ChildClose

SpecInput == InitInput /\ [][NextInput]_vars

(***************************************************************************)
(* Properties.                                                             *)
(***************************************************************************)
\* a suspended handler resumes in this step
Resumes == Len(handled') = Len(handled) + 1

\* the handler that resumes, and the answer it resumes with
Resumed == handled'[Len(handled')]

\* what the resuming handler does to the subprocess
NewChildOps == SubSeq(childOps', Len(childOps) + 1, Len(childOps'))

\* a stdout chunk arrives in this step
ChunkArrives == Len(chunkLog') = Len(chunkLog) + 1

\* the text matches a yes/no or a text-input pattern
MatchesPrompt(text) == hasYesNoQuestion(text) \/ hasTextInputQuestion(text)

\* the showErrorMessage call of the first precondition that fails
FirstFailure ==
  IF ~workspaceFolder THEN "No workspace folder open"
  ELSE IF ~pythonExists THEN "Python not found at"
  ELSE "Git-CD not found at"

\* C1: an invocation whose workspace folder is unknown, or whose interpreter
\* or executable path does not exist, spawns no subprocess and shows exactly
\* one failure notification, that of the first failing precondition in the
\* order workspace, interpreter, executable.
C1_PreconditionFailureReported ==
  (pc # "idle" /\ ~(workspaceFolder /\ pythonExists /\ gitcdExists)) =>
    /\ spawnCount = 0
    /\ proc = "none"
    /\ notifications = <<Notification("error", FirstFailure, "", NullCode)>>

C1_Witness ==
  /\ pc = "returned"
  /\ workspaceFolder /\ ~pythonExists /\ ~gitcdExists
  /\ Len(notifications) = 1

\* C2: the outcome of a spawned session follows from how the subprocess ends:
\* a first 'close' with code 0 resolves the promise and shows the success
\* message tagged with args[0]; a first 'close' with another code rejects it
\* with that code; a first 'error' rejects it with the error's message; the
\* promise is resolved after nothing but a 'close' with code 0.
C2_OutcomeFollowsProcessEnd ==
  pc = "spawned" =>
    /\ procEvents = <<>> => promise = Pending
    /\ (procEvents # <<>> /\ procEvents[1].event = "close"
          /\ procEvents[1].code = Code(0)) =>
         /\ promise = Resolved
         /\ notifications =
              <<Notification("info", "completed successfully", args[1], NullCode)>>
    /\ (procEvents # <<>> /\ procEvents[1].event = "close"
          /\ procEvents[1].code # Code(0)) =>
         /\ promise = RejectedExit(procEvents[1].code)
         /\ notifications =
              <<Notification("error", "failed with code", args[1], procEvents[1].code)>>
    /\ (procEvents # <<>> /\ procEvents[1].event = "error") =>
         /\ promise = RejectedWith(SpawnErrorMessage)
         /\ notifications[1] =
              Notification("error", "Git-CD error", SpawnErrorMessage, NullCode)
    /\ promise.state = "resolved" =>
         procEvents = <<[event |-> "close", code |-> Code(0)]>>

C2_Witness ==
  /\ proc = "closed"
  /\ procEvents = <<[event |-> "close", code |-> NullCode]>>
  /\ promise.state = "rejected"

\* C3: when a quick pick is answered with "Yes" or "No", exactly the lower-case
\* word and a newline is written to the subprocess input and the subprocess is
\* not killed; when it is dismissed, "no\n" is written and then the subprocess
\* is killed.
C3_YesNoAnswerWritten ==
  [][(Resumes /\ Resumed.kind = "yesno") =>
       /\ Resumed.answer = Value(Yes) =>
            NewChildOps = <<Write(<<"y","e","s","\n">>)>>
       /\ Resumed.answer = Value(No) =>
            NewChildOps = <<Write(<<"n","o","\n">>)>>
       /\ Resumed.answer = Undefined =>
            NewChildOps = <<Write(<<"n","o","\n">>), Kill>>]_vars

C3_Witness ==
  /\ \E i \in 1..Len(handled) :
       handled[i].kind = "yesno" /\ handled[i].answer = Value(Yes)
  /\ Write(<<"y","e","s","\n">>) \in Range(childOps)
  /\ Kill \notin Range(childOps)

\* C4: when an input box is submitted, with any text or with none, that text
\* and a newline is written to the subprocess input and the subprocess is not
\* killed; when it is dismissed, nothing is written and the subprocess is
\* killed.
C4_TextAnswerWritten ==
  [][(Resumes /\ Resumed.kind = "text") =>
       IF Resumed.answer.defined
         THEN NewChildOps = <<Write(Resumed.answer.value \o <<"\n">>)>>
         ELSE NewChildOps = <<Kill>>]_vars

C4_Witness ==
  /\ \E i \in 1..Len(handled) :
       handled[i].kind = "text" /\ handled[i].answer = Value(<<>>)
  /\ childOps = <<Write(<<"\n">>)>>

\* C5 as stated: whenever a prompt, yes/no or text, is dismissed, the
\* subprocess is killed and nothing is written to its input.
C5_CancelWritesNothing ==
  [][(Resumes /\ ~Resumed.answer.defined) => NewChildOps = <<Kill>>]_vars

\* C5: whenever a prompt is dismissed, the subprocess is killed as the last
\* thing done to it; a dismissed input box writes nothing before, a dismissed
\* quick pick writes "no\n" before.
C5_CancelKills ==
  [][(Resumes /\ ~Resumed.answer.defined) =>
       /\ NewChildOps # <<>>
       /\ NewChildOps[Len(NewChildOps)] = Kill
       /\ Resumed.kind = "text" => Len(NewChildOps) = 1
       /\ Resumed.kind = "yesno" =>
            NewChildOps = <<Write(<<"n","o","\n">>), Kill>>]_vars

C5_Witness ==
  /\ \E i \in 1..Len(handled) :
       handled[i].kind = "yesno" /\ handled[i].answer = Undefined
  /\ \E i \in 1..Len(handled) :
       handled[i].kind = "text" /\ handled[i].answer = Undefined
  /\ killSignalled

\* C6: at any moment at most one quick pick or input box of a session is
\* outstanding.
C6_OneCollectionAtATime == Cardinality(awaiting) <= 1

\* the stdout chunks that arrived after the chunk with number id
ArrivedAfter(id) == Concat(SubSeq(chunkLog, id + 1, Len(chunkLog)))

\* text ends with tail
EndsWith(text, tail) ==
  /\ Len(tail) <= Len(text)
  /\ SubSeq(text, Len(text) - Len(tail) + 1, Len(text)) = tail

\* C7: the text of the stdout chunks that arrived while an answer was being
\* collected is still in the pending buffer when that prompt has been handled.
C7_LateChunksKept ==
  [][Resumes => EndsWith(pendingOutput', ArrivedAfter(Resumed.id))]_vars

\* C8: when a stdout chunk arrives while no answer is being collected and the
\* subprocess input is writable, a prompt is detected at that chunk if the
\* pending buffer, the chunks since its last clear together, matches a yes/no
\* or a text-input pattern.
C8_DetectionOnPendingBuffer ==
  [][(ChunkArrives /\ awaiting = {} /\ stdinWritable
        /\ MatchesPrompt(stripAnsiCodes(pendingOutput'))) =>
       \E h \in awaiting' : h.id = Len(chunkLog')]_vars

\* the stdout chunks received since the last handled prompt
SinceLastHandled == Concat(SubSeq(chunkLog, clearedAt + 1, Len(chunkLog)))

\* C9: the pending buffer always is the concatenation of the stdout chunks
\* received since the last handled prompt; a step changes it only by appending
\* the chunk that arrives, or by clearing it when a suspended handler has
\* resumed and written its answer or killed the subprocess.
C9_PendingBufferAccumulates ==
  /\ [](pendingOutput = SinceLastHandled)
  /\ [][\/ pendingOutput' = pendingOutput
        \/ /\ ChunkArrives
           /\ pendingOutput' = pendingOutput \o chunkLog'[Len(chunkLog')]
        \/ /\ Resumes
           /\ NewChildOps # <<>>
           /\ pendingOutput' = <<>>]_vars

C9_Witness ==
  /\ Len(chunkLog) = 2
  /\ clearedAt = 1
  /\ pendingOutput = chunkLog[2]
  /\ ~MatchesPrompt(stripAnsiCodes(chunkLog[2]))

\* C10: a session whose subprocess has closed has shown exactly one summary
\* notification, also when 'error' was followed by 'close'.
C10_OneSummaryNotification ==
  proc = "closed" => Len(notifications) = 1


\* C11: when a dismissed prompt has killed the subprocess, the cancellation is
\* not surfaced as an error: no failure notification with an exit code is
\* shown and the promise is not rejected with 'Process exited with code'.
C11_CancelNotAnError ==
  (proc = "closed" /\ killSignalled /\ exitCode = NullCode) =>
    /\ \A i \in 1..Len(notifications) : notifications[i].what # "failed with code"
    /\ promise.error # "Process exited with code"

\* how often child.kill() was called
KillCount(ops) == Cardinality({i \in 1..Len(ops) : ops[i] = Kill})

\* C12: the session calls child.kill() only in the step in which a suspended
\* handler resumes from a dismissed quick pick or input box, and then once:
\* not on an answered prompt, a chunk, an exit, a close or a spawn error.
C12_KillOnlyOnDismissal ==
  [][KillCount(childOps') # KillCount(childOps) =>
       /\ Resumes
       /\ ~Resumed.answer.defined
       /\ KillCount(childOps') = KillCount(childOps) + 1]_vars

C12_Witness ==
  /\ KillCount(childOps) = 2
  /\ \A i \in 1..Len(handled) : ~handled[i].answer.defined

\* C13: an invocation spawns the subprocess at most once, whatever its
\* outcome; a subprocess exists only after the one spawn.
C13_NoRetry ==
  /\ spawnCount <= 1
  /\ proc # "none" => spawnCount = 1

C13_Witness ==
  /\ spawnCount = 1
  /\ proc = "closed"
  /\ promise.state = "rejected"
  /\ Len(procEvents) = 2

\* Text Sanitizer of the display: ANSI colour codes stripped, every line
\* trimmed at its end
Sanitized(text) == cleanedLines(stripAnsiCodes(text))

\* an outputChannel.append call
IsAppend(entry) == entry.kind = "append"

\* C14: the texts appended to the display are the sanitized chunks of both
\* streams, each once, in the order the chunks arrived.
C14_DisplayInArrivalOrder ==
  SelectSeq(display, IsAppend) =
    [i \in 1..Len(arrivals) |-> Text(Sanitized(arrivals[i]))]

C14_Witness ==
  /\ Len(chunkLog) = 1
  /\ Len(errLog) = 1
  /\ arrivals = chunkLog \o errLog
  /\ \E h \in awaiting : h.id = 1

\* a stderr chunk arrives in this step
ErrChunkArrives == Len(errLog') = Len(errLog) + 1

\* C15: a stderr chunk only appends its sanitized text to the display and its
\* text to the accumulated stderr: it starts no answer collection, leaves the
\* pending buffer alone, writes nothing to the subprocess and kills nothing.
C15_StderrOnlyDisplayed ==
  [][ErrChunkArrives =>
       /\ display' = Append(display, Text(Sanitized(errLog'[Len(errLog')])))
       /\ stderr' = stderr \o errLog'[Len(errLog')]
       /\ UNCHANGED <<pendingOutput, awaiting, childOps, killSignalled,
                      stdout, chunkLog>>]_vars

C15_Witness ==
  /\ Len(errLog) = 1
  /\ MatchesPrompt(stripAnsiCodes(errLog[1]))
  /\ stdinWritable
  /\ awaiting = {}
  /\ pendingOutput = <<>>
  /\ childOps = <<>>


\* what was done to the subprocess of invocation s in this step
NewChildOpsOf(s) == SubSeq(childOps'[s], Len(childOps[s]) + 1, Len(childOps'[s]))

\* C16: with two invocations running concurrently, the pending buffer of each
\* session is the concatenation of the chunks of its own subprocess since its
\* last handled prompt, and a handler that resumes writes its answer to, or
\* kills, the subprocess of its own session and leaves the other one alone.
C16_SessionsOwnTheirSubprocess ==
  /\ [](\A s \in Sessions :
          pendingOutput[s] =
            Concat(SubSeq(chunkLog[s], clearedAt[s] + 1, Len(chunkLog[s]))))
  /\ [][\A s \in Sessions :
          Len(handled'[s]) = Len(handled[s]) + 1 =>
            LET answer == handled'[s][Len(handled'[s])].answer
            IN  /\ NewChildOpsOf(s) # <<>>
                /\ answer.defined =>
                     NewChildOpsOf(s)[1].op = "write" /\ Kill \notin Range(NewChildOpsOf(s))
                /\ ~answer.defined =>
                     NewChildOpsOf(s)[Len(NewChildOpsOf(s))] = Kill
                /\ pendingOutput'[s] = <<>>
                /\ \A t \in Sessions \ {s} :
                     /\ childOps'[t] = childOps[t]
                     /\ killSignalled'[t] = killSignalled[t]
                     /\ pendingOutput'[t] = pendingOutput[t]]_vars

C16_Witness ==
  /\ handled[1] # <<>> /\ ~handled[1][1].answer.defined
  /\ childOps[1] # <<>>
  /\ childOps[2] = <<>>
  /\ awaiting[2] # {}
  /\ pendingOutput[2] = chunkLog[2][1]


\* what the handler of the id-th stdout chunk took the chunk for
ClassifiedAs(id) ==
  IF \E h \in awaiting : h.id = id
    THEN (CHOOSE h \in awaiting : h.id = id).kind
  ELSE IF \E i \in 1..Len(handled) : handled[i].id = id
    THEN handled[CHOOSE i \in 1..Len(handled) : handled[i].id = id].kind
  ELSE "none"

\* the text ends in '?' once its trailing white space is removed
EndsInQuestionMark(text) ==
  trimEnd(text) # <<>> /\ trimEnd(text)[Len(trimEnd(text))] = "?"

\* the value of the line if it has the form Default: <value>, that is, what
\* follows "Default:" on the line
DefaultValuesOf(line) ==
  {From(line, i + 8) : i \in {j \in 1..Len(line) :
     /\ MatchesAt(line, <<"D","e","f","a","u","l","t",":">>, j)
     /\ j + 8 <= Len(line)}}

HasDefaultLine(text) ==
  \E k \in 1..Len(split(text)) : DefaultValuesOf(split(text)[k]) # {}

\* the class the rules give a text
ClassOf(text) ==
  IF \/ ContainsCI(text, <<"[","y","/","n","]">>)
     \/ ContainsCI(text, <<"(","y","e","s","/","n","o",")">>)
    THEN "yesno"
  ELSE IF \/ EndsInQuestionMark(text)
          \/ HasDefaultLine(text)
          \/ ContainsCI(text, <<"c","o","n","t","i","n","u","e","?">>)
          \/ ContainsCI(text, <<"p","r","o","c","e","e","d","?">>)
          \/ ContainsCI(text, <<"d","o"," ","y","o","u"," ","w","a","n","t">>)
    THEN "text"
  ELSE "none"

\* C17: every text is classified, and by precedence: binary iff it contains
\* [y/n] or (yes/no) in any letter-casing; otherwise free-text iff it ends in
\* '?' after trailing white space, contains a line of the form
\* Default: <value>, or contains continue?, proceed? or do you want in any
\* letter-casing; otherwise none.
C17_ClassificationFollowsPrecedence ==
  \A id \in 1..Len(chunkLog) :
    ClassifiedAs(id) = ClassOf(stripAnsiCodes(chunkLog[id]))


\* the stdout chunk "Continue? [y/n]: " has arrived first and its handler has
\* not resumed yet
ContinuePromptArrived ==
  Len(chunkLog) >= 1 /\ chunkLog[1] = ContinuePrompt /\ handled = <<>>

\* C18 as stated: "Continue? [y/n]: " is classified binary and the question
\* shown to the human is exactly "Continue".
C18_CleanedQuestionIsContinue ==
  ContinuePromptArrived =>
    \E h \in awaiting :
      /\ h.id = 1
      /\ h.kind = "yesno"
      /\ h.question = <<"C","o","n","t","i","n","u","e">>

\* C18: "Continue? [y/n]: " is classified binary and the question shown to the
\* human is exactly "Continue?": the trailing marker, the colon and the white
\* space around them are removed, the question mark stays.
C18_CleanedQuestionKeepsQuestionMark ==
  ContinuePromptArrived =>
    \E h \in awaiting :
      /\ h.id = 1
      /\ h.kind = "yesno"
      /\ h.question = <<"C","o","n","t","i","n","u","e","?">>

C18_Witness ==
  /\ chunkLog = <<ContinuePrompt>>
  /\ pendingOutput = ContinuePrompt
  /\ \E h \in awaiting : h.kind = "yesno"


\* the sanitized pending buffer the handler of the id-th stdout chunk works
\* on, when no handler resumed before the chunk arrived
BufferAt(id) == stripAnsiCodes(Concat(SubSeq(chunkLog, 1, id)))

\* the question of a buffer: its last line with a '?', else its last line that
\* is not empty, else the sanitized chunk
QuestionOf(buffer, chunk) ==
  LET lines == split(buffer)
      asking == {i \in 1..Len(lines) : includes(lines[i], "?")}
      full == {i \in 1..Len(lines) : trim(lines[i]) # <<>>}
  IN  IF asking # {} THEN lines[MaxOf(asking)]
      ELSE IF full # {} THEN lines[MaxOf(full)]
      ELSE chunk

\* the default of a buffer: the value of its first line of the form
\* Default: <value>, trimmed, and the empty text if it has no such line
DefaultOf(buffer) ==
  LET lines == split(buffer)
      with == {i \in 1..Len(lines) : DefaultValuesOf(lines[i]) # {}}
  IN  IF with = {} THEN <<>>
      ELSE LET line == lines[MinOf(with)]
               at == MinOf({j \in 1..Len(line) :
                              MatchesAt(line, <<"D","e","f","a","u","l","t",":">>, j)})
           IN  trim(From(line, at + 8))

\* C19: the question of a free-text prompt is the last line of the accumulated
\* buffer that contains '?', or the last non-empty line if none does, or the
\* sanitized chunk if there is none; the default of a prompt is the trimmed
\* value of a Default: <value> line of the buffer and empty if there is no
\* such line.  "Enter branch name?\nDefault: main" gives a free-text prompt
\* with question "Enter branch name?" and default "main".
C19_QuestionAndDefaultExtracted ==
  /\ \A h \in awaiting :
       /\ h.kind = "text" =>
            trim(h.question) =
              trim(QuestionOf(BufferAt(h.id), stripAnsiCodes(chunkLog[h.id])))
       /\ h.defaultValue = DefaultOf(BufferAt(h.id))
  /\ (chunkLog = <<BranchPrompt>> /\ handled = <<>>) =>
       \E h \in awaiting :
         /\ h.kind = "text"
         /\ h.question = SubSeq(BranchPrompt, 1, 18)
         /\ h.defaultValue = <<"m","a","i","n">>


\* C20: sanitization is idempotent: the text a handler appends to the display
\* for a chunk T is sanitize(T), and sanitizing it once more leaves it as it
\* is, where sanitize removes every ESC [ <params> m and trims the trailing
\* white space of every line.
C20_SanitizeIdempotent ==
  \A i \in 1..Len(display) :
    IsAppend(display[i]) =>
      /\ display[i].text = Sanitized(arrivals[1])
      /\ Sanitized(display[i].text) = display[i].text


\* the names the session sets itself
FixedNames == {"HOME", "USER", "GITCD_INTERACTIVE", "GIT_TERMINAL_PROMPT"}

\* the agent socket discovered on the host, "" if none
DiscoveredSocket ==
  findSshAuthSocket(host.configuredSocket, host.processEnv, host.existing)

\* SSH_AUTH_SOCK is the discovered socket, or as inherited if none was
\* discovered; every variable that is not fixed is as inherited
InheritedPassedThrough ==
  LET inherited == host.processEnv
  IN  /\ DiscoveredSocket # "" =>
           "SSH_AUTH_SOCK" \in DOMAIN env /\ env["SSH_AUTH_SOCK"] = DiscoveredSocket
      /\ DiscoveredSocket = "" =>
           ("SSH_AUTH_SOCK" \in DOMAIN env <=> "SSH_AUTH_SOCK" \in DOMAIN inherited)
      /\ \A n \in DOMAIN inherited \ FixedNames :
           (n # "SSH_AUTH_SOCK" \/ DiscoveredSocket = "") =>
             n \in DOMAIN env /\ env[n] = inherited[n]
      /\ DOMAIN env \subseteq DOMAIN inherited \cup FixedNames \cup {"SSH_AUTH_SOCK"}

\* the environment is built once, and before the spawn
BuiltOnceBeforeSpawn ==
  /\ [](proc # "none" => env # NoEnv)
  /\ [][env' # env => env = NoEnv /\ proc = "none"]_vars

\* C21 as stated: HOME, USER, GITCD_INTERACTIVE and GIT_TERMINAL_PROMPT are
\* set to the home directory, the user name, 'false' and '0' whatever is
\* inherited under these names; SSH_AUTH_SOCK and the other variables as in
\* C21 below.
C21_FixedVariablesAlwaysWin ==
  /\ [](env # NoEnv =>
          /\ FixedNames \subseteq DOMAIN env
          /\ env["HOME"] = host.homedir
          /\ env["USER"] = host.username
          /\ env["GITCD_INTERACTIVE"] = "false"
          /\ env["GIT_TERMINAL_PROMPT"] = "0"
          /\ InheritedPassedThrough)
  /\ BuiltOnceBeforeSpawn

\* C21: the environment of the subprocess is the inherited one with HOME set
\* to the home directory, GITCD_INTERACTIVE to 'false' and GIT_TERMINAL_PROMPT
\* to '0' whatever is inherited under these names, and USER set to the
\* inherited USER if that is not empty and to the user name of the account
\* otherwise; SSH_AUTH_SOCK is the discovered agent socket and keeps its
\* inherited value if none was discovered; every other inherited variable is
\* passed through unchanged.  It is built once, before the spawn.
C21_EnvironmentOverlay ==
  /\ [](env # NoEnv =>
          /\ FixedNames \subseteq DOMAIN env
          /\ env["HOME"] = host.homedir
          /\ env["USER"] = IF IsSet(host.processEnv, "USER")
                             THEN host.processEnv["USER"]
                             ELSE host.username
          /\ env["GITCD_INTERACTIVE"] = "false"
          /\ env["GIT_TERMINAL_PROMPT"] = "0"
          /\ InheritedPassedThrough)
  /\ BuiltOnceBeforeSpawn

C21_Witness ==
  /\ proc = "running"
  /\ env # NoEnv
  /\ IsSet(host.processEnv, "USER")
  /\ IsSet(host.processEnv, "GITCD_INTERACTIVE")
  /\ IsSet(host.processEnv, "HOME")
  /\ IsSet(host.processEnv, "SSH_AUTH_SOCK")
  /\ DiscoveredSocket = ""
  /\ env["SSH_AUTH_SOCK"] = host.processEnv["SSH_AUTH_SOCK"]


\* C22: once the subprocess has closed, nothing is written to its input and
\* kill is not called, also when it ended while a prompt was still open.
C22_NoOperationAfterClose ==
  [][(proc = "closed" \/ proc = "failed") => childOps' = childOps]_vars


\* C23: a stdout chunk that matches a prompt pattern while the input of the
\* subprocess is not writable is displayed and appended to the pending buffer
\* and nothing else: no prompt is opened, nothing is written, nothing is
\* killed and the buffer is not cleared.
C23_NoPromptWhenNotWritable ==
  [][(/\ Len(chunkLog') = Len(chunkLog) + 1
      /\ MatchesPrompt(stripAnsiCodes(chunkLog'[Len(chunkLog')]))
      /\ ~stdinWritable) =>
       /\ awaiting' = awaiting
       /\ childOps' = childOps
       /\ killSignalled' = killSignalled
       /\ handled' = handled
       /\ pendingOutput' = pendingOutput \o chunkLog'[Len(chunkLog')]
       /\ display' = Append(display, Text(Sanitized(chunkLog'[Len(chunkLog')])))]_vars

C23_Witness ==
  /\ proc \in {"exited", "closed"}
  /\ Len(chunkLog) = 1
  /\ MatchesPrompt(stripAnsiCodes(chunkLog[1]))
  /\ awaiting = {}
  /\ handled = <<>>
  /\ childOps = <<>>
  /\ pendingOutput = chunkLog[1]


\* the input box of runGitCdCommandWithInput returns in this step
InputReturns == pc = "inputBox" /\ pc' # "inputBox"

\* C24: runGitCdCommandWithInput runs the command at most once and only after
\* the input box returned a value: on a cancelled box runGitCdCommand is never
\* called; on an empty input it is called with the original arguments; on a
\* non-empty input with the original arguments followed by the input.
C24_RunsOnceAfterInput ==
  /\ [](pc = "inputBox" =>
          spawnCount = 0 /\ proc = "none" /\ display = <<>> /\ notifications = <<>>)
  /\ [](pc = "cancelled" =>
          /\ spawnCount = 0 /\ proc = "none" /\ env = NoEnv
          /\ display = <<>> /\ notifications = <<>> /\ promise = Pending)
  /\ [](spawnCount <= 1)
  /\ [][pc # "inputBox" => pc' = pc]_vars
  /\ [][InputReturns =>
          LET input == handled'[Len(handled')].answer
          IN  /\ ~input.defined => pc' = "cancelled" /\ args' = args
              /\ (input.defined /\ input.value = <<>>) =>
                   pc' \in {"returned", "spawned"} /\ args' = args
              /\ (input.defined /\ input.value # <<>>) =>
                   /\ pc' \in {"returned", "spawned"}
                   /\ args' = args \o <<input.value>>]_vars

C24_Witness ==
  /\ pc = "spawned"
  /\ proc = "closed"
  /\ spawnCount = 1
  /\ handled[1].kind = "input"
  /\ handled[1].answer.value = <<>>
  /\ Len(args) = 1


\* C25: if every prompt is answered or dismissed and the subprocess emits
\* 'close' or 'error', an invocation of runGitCdCommand settles; it settles
\* at most once; a precondition failure settles it without any process event.
C25_InvocationSettles ==
  /\ (pc # "idle") ~> (promise.state # "pending")
  /\ [][promise.state # "pending" => promise' = promise]_vars
  /\ [](pc = "returned" =>
          /\ promise.state = "resolved"
          /\ proc = "none" /\ spawnCount = 0 /\ procEvents = <<>>)

C25_Witness ==
  /\ proc = "closed"
  /\ promise.state = "rejected"
  /\ handled # <<>>
  /\ procEvents = <<[event |-> "close", code |-> Code(1)]>>

====
